---- MODULE Spec2Model ----
(***************************************************************************)
(* pyscf/tools/cubegen.py: density() and mep() evaluate a scalar field on  *)
(* the nx*ny*nz grid of a cube_c object and hand it to cube_c.write().     *)
(*                                                                         *)
(* Real numbers are fixed-point integers with Res units per Bohr; a float  *)
(* is a record [kind, val] so that the IEEE results of a division by zero  *)
(* (inf, nan) and the unset cells of numpy.empty are values of their own.  *)
(* A call is a record of the function's arguments and locals plus its      *)
(* position pc; the molecule (atoms, rinv origin) is shared by all calls.  *)
(***************************************************************************)
EXTENDS Integers, Sequences, FiniteSets, TLC

\* mol0 is history: the molecule as it was handed to the calls; no action reads it
VARIABLES mol, calls, files, mol0

vars == <<mol, calls, files, mol0>>

(* ------------------------------ bounds --------------------------------- *)
\* largest small grid dimension tried for nx, ny, nz
MaxN == 2
\* edge of the one large grid (BigN^3 > BLKSIZE, so density() needs two chunks)
BigN == 21
\* fixed-point resolution: units per Bohr
Res == 4
\* density matrices tried: dm is a scalar occupation 1..MaxDm
MaxDm == 1

(* ------------------------- program constants --------------------------- *)
\* blksize = min(8000, ngrids)
BLKSIZE == 8000
\* cube_c: the box is the atoms' extent plus Margin Bohr on each side
Margin == 3

Min(a, b) == IF a <= b THEN a ELSE b

Max(a, b) == IF a >= b THEN a ELSE b

(* ------------------------------ floats --------------------------------- *)
Fin(v) == [kind |-> "fin", val |-> v]

Inf(s) == [kind |-> "inf", val |-> s]

NaN == [kind |-> "nan", val |-> 0]

\* a cell of numpy.empty() that nothing has written yet
Uninit == [kind |-> "uninit", val |-> 0]

Neg(a) == IF a.kind = "nan" THEN NaN ELSE [kind |-> a.kind, val |-> 0 - a.val]

\* IEEE addition: nan is absorbing, inf + (-inf) = nan, inf + finite = inf
FAdd(a, b) ==
  IF a.kind \notin {"fin", "inf"} \/ b.kind \notin {"fin", "inf"} THEN NaN
  ELSE IF a.kind = "inf" /\ b.kind = "inf"
       THEN IF a.val = b.val THEN a ELSE NaN
  ELSE IF a.kind = "inf" THEN a
  ELSE IF b.kind = "inf" THEN b
  ELSE Fin(a.val + b.val)

FSub(a, b) == FAdd(a, Neg(b))

RECURSIVE SqrtIter(_, _)
SqrtIter(n, x) ==
  LET y == (x + n \div x) \div 2 IN IF y >= x THEN x ELSE SqrtIter(n, y)

\* x ** .5 on a non-negative fixed-point square
Sqrt(n) == IF n = 0 THEN 0 ELSE SqrtIter(n, n)

\* faulty variant: a division that special-cases d = 0
DivGuarded(Z, d) == IF d = 0 THEN Fin(0) ELSE Fin((Z * Res * Res) \div d)

\* Z / d for an integer charge Z >= 0 and a distance d >= 0 (numpy: no exception,
\* Z/0.0 is inf and 0/0.0 is nan)
Div(Z, d) ==
  IF d = 0 THEN (IF Z = 0 THEN NaN ELSE Inf(1)) ELSE Fin((Z * Res * Res) \div d)

Dot(u, v) == u[1] * v[1] + u[2] * v[2] + u[3] * v[3]

VSub(u, v) == <<u[1] - v[1], u[2] - v[2], u[3] - v[3]>>

\* |u - v| in fixed-point units
Dist(u, v) == Sqrt(Dot(VSub(u, v), VSub(u, v)))

RECURSIVE SumUpTo(_, _)
\* f[1] + ... + f[n], integers
SumUpTo(f, n) == IF n = 0 THEN 0 ELSE SumUpTo(f, n - 1) + f[n]

(* ----------------------------- molecule -------------------------------- *)
Atom(x, y, z, Z) == [r |-> <<x * Res, y * Res, z * Res>>, Z |-> Z]

\* the molecules tried: one atom at the origin; two unit charges 2 Bohr apart;
\* two atoms with a ghost atom (charge 0) half way between them
Molecules ==
  { <<Atom(0, 0, 0, 1)>>,
    <<Atom(0, 0, 0, 1), Atom(2, 0, 0, 1)>>,
    <<Atom(0 - 1, 0, 0, 8), Atom(1, 0, 0, 1), Atom(0, 0, 0, 0)>> }

\* values the rinv origin can hold before a call
Origins == { <<0, 0, 0>>, <<Res, 2 * Res, 3 * Res>> }

natm(m) == Len(m.atoms)

atom_coord(m, i) == m.atoms[i].r

atom_charge(m, i) == m.atoms[i].Z

\* mol.set_rinv_orig_(p): the molecule itself is changed
set_rinv_orig_(m, p) == [m EXCEPT !.rinv_orig = p]

\* einsum('ij,ij', mol.intor('cint1e_rinv_sph'), dm): the potential at the
\* molecule's CURRENT rinv origin of the electron density (each atom's share a
\* cloud of radius 1 Bohr, so the value is finite on a nucleus)
rinv_contract(m, dm) ==
  LET term == [i \in 1..natm(m) |->
                (dm * m.atoms[i].Z * Res * Res)
                  \div (Res + Dist(m.atoms[i].r, m.rinv_orig))]
  IN  Fin(SumUpTo(term, natm(m)))

\* numint.eval_ao at one point: one value per atom-centred basis function, a
\* function of the distance to the atom
ao_row(m, p) == [i \in 1..natm(m) |-> Dist(m.atoms[i].r, p)]

\* numint.eval_ao(mol, coords): one row per point, in the order of coords
eval_ao(m, points) == [i \in 1..Len(points) |-> ao_row(m, points[i])]

\* numint.eval_rho(mol, ao, dm): one density value per row of ao
eval_rho(m, ao, dm) ==
  [i \in 1..Len(ao) |->
     LET term == [a \in 1..natm(m) |->
                   (dm * m.atoms[a].Z * Res * Res * Res)
                     \div ((Res + ao[i][a]) * (Res + ao[i][a]))]
     IN  Fin(SumUpTo(term, natm(m)))]

(* -------------------------- cube_c (m_cube) ---------------------------- *)
RECURSIVE AxisMin(_, _, _)
AxisMin(atoms, a, n) ==
  IF n = 1 THEN atoms[1].r[a] ELSE Min(atoms[n].r[a], AxisMin(atoms, a, n - 1))

RECURSIVE AxisMax(_, _, _)
AxisMax(atoms, a, n) ==
  IF n = 1 THEN atoms[1].r[a] ELSE Max(atoms[n].r[a], AxisMax(atoms, a, n - 1))

NoGrid == [nx |-> 0, ny |-> 0, nz |-> 0, boxorig |-> <<0, 0, 0>>, box |-> <<0, 0, 0>>]

\* cube_c(mol, nx, ny, nz) accepts only positive dimensions
cube_ok(nx, ny, nz) == nx >= 1 /\ ny >= 1 /\ nz >= 1

cube_c(m, nx, ny, nz) ==
  LET n == natm(m) IN
  [nx |-> nx, ny |-> ny, nz |-> nz,
   boxorig |-> [a \in 1..3 |-> AxisMin(m.atoms, a, n) - Margin * Res],
   box |-> [a \in 1..3 |->
              AxisMax(m.atoms, a, n) - AxisMin(m.atoms, a, n) + 2 * Margin * Res]]

get_ngrids(cc) == cc.nx * cc.ny * cc.nz

\* the grid point with axis indices ix, iy, iz (0-based)
grid_point(cc, ix, iy, iz) ==
  <<cc.boxorig[1] + ix * (cc.box[1] \div cc.nx),
    cc.boxorig[2] + iy * (cc.box[2] \div cc.ny),
    cc.boxorig[3] + iz * (cc.box[3] \div cc.nz)>>

\* get_coords(): the points in the order x outermost, y middle, z innermost
get_coords(cc) ==
  [k \in 1..get_ngrids(cc) |->
     grid_point(cc, (k - 1) \div (cc.ny * cc.nz),
                    ((k - 1) \div cc.nz) % cc.ny,
                    (k - 1) % cc.nz)]

\* cube_c.write(field, fname, comment): the header and the values of the 3-D
\* array, first index (x) outermost, last index (z) innermost
cube_write(cc, m, field, comment) ==
  [comment |-> comment, natm |-> natm(m),
   nx |-> cc.nx, ny |-> cc.ny, nz |-> cc.nz,
   body |-> [k \in 1..(field.shape[1] * field.shape[2] * field.shape[3]) |->
               field.at[<<(k - 1) \div (field.shape[2] * field.shape[3]),
                          ((k - 1) \div field.shape[3]) % field.shape[2],
                          (k - 1) % field.shape[3]>>]]]

NoFile == [comment |-> "", natm |-> 0, nx |-> 0, ny |-> 0, nz |-> 0, body |-> <<>>]

(* ------------------------------- numpy --------------------------------- *)
\* numpy.empty(n): n cells of unspecified content
Empty(n) == [k \in 1..n |-> Uninit]

\* faulty variant: the slice [ip0:ip1-1]
SliceIdxShort(ip0, ip1) == (ip0 + 1)..(ip1 - 1)

\* the 1-based positions of the Python slice [ip0:ip1]
SliceIdx(ip0, ip1) == (ip0 + 1)..ip1

\* faulty variant: a[0:ip1-ip0]
SliceFirst(a, ip0, ip1) == [i \in 1..(Min(ip1, Len(a)) - ip0) |-> a[i]]

\* a[ip0:ip1]
Slice(a, ip0, ip1) == [i \in 1..(Min(ip1, Len(a)) - ip0) |-> a[ip0 + i]]

\* a[ip0:ip1] = vals
AssignSlice(a, ip0, ip1, vals) ==
  [k \in 1..Len(a) |-> IF k \in SliceIdx(ip0, ip1) THEN vals[k - ip0] ELSE a[k]]

NoField == [ok |-> FALSE, shape |-> <<0, 0, 0>>, at |-> <<>>]

\* a.reshape(n1, n2, n3) in C order; ValueError (ok = FALSE) unless the sizes agree
Reshape(a, n1, n2, n3) ==
  IF Len(a) # n1 * n2 * n3 THEN NoField
  ELSE [ok |-> TRUE, shape |-> <<n1, n2, n3>>,
        at |-> [idx \in (0..(n1 - 1)) \X (0..(n2 - 1)) \X (0..(n3 - 1)) |->
                  a[idx[1] * n2 * n3 + idx[2] * n3 + idx[3] + 1]]]

\* gen_grid.prange(start, end, step): the range that starts at ip0
prange_ip1(ip0, end, step) == Min(ip0 + step, end)

(* ------------------------------- calls --------------------------------- *)
Slots == {1, 2}

Request(fn, dm, nx, ny, nz) == [fn |-> fn, dm |-> dm, nx |-> nx, ny |-> ny, nz |-> nz]

NoRequest == Request("none", 0, 0, 0, 0)

Dims == { 0 - 1, 0 } \cup (1..MaxN)

\* the calls tried one at a time: every small grid, valid or not, for both
\* functions, and one density() call on a grid of more than BLKSIZE points
Requests ==
  { Request(fn, dm, nx, ny, nz) :
      fn \in {"density", "mep"}, dm \in 1..MaxDm, nx \in Dims, ny \in Dims, nz \in Dims }
  \cup { Request("density", 1, BigN, BigN, BigN) }

IdleCall ==
  [pc |-> "idle", req |-> NoRequest, cc |-> NoGrid, coords |-> <<>>,
   ngrids |-> 0, blksize |-> 0, ip0 |-> 0, rho |-> <<>>,
   ia |-> 0, Vnuc |-> <<>>, Vele |-> <<>>, MEP |-> <<>>, field |-> NoField,
   \* history, not program state: the slices assigned, the evaluations made,
   \* the sequence of set-origin / integral steps, interference by another call
   writes |-> <<>>, nevals |-> 0, log |-> <<>>, disturbed |-> FALSE]

Init ==
  /\ mol \in { [atoms |-> a, rinv_orig |-> o] : a \in Molecules, o \in Origins }
  /\ calls = [c \in Slots |-> IdleCall]
  /\ files = [c \in Slots |-> NoFile]
  /\ mol0 = mol

Set(c, rec) == calls' = [calls EXCEPT ![c] = rec]

\* density(mol, outfile, dm, nx, ny, nz) / mep(...) is entered
Call(c, reqs) ==
  /\ calls[c].pc = "idle"
  /\ \E r \in reqs : Set(c, [IdleCall EXCEPT !.pc = "cube", !.req = r])
  /\ UNCHANGED <<mol, files, mol0>>

\* faulty variant: the exception of cube_c() is swallowed
AfterCubeSwallow(ok, fn) == IF fn = "density" THEN "prep" ELSE "nuc0"

\* where a call goes after cube_c(): an exception leaves the function
AfterCube(ok, fn) ==
  IF ~ok THEN "error" ELSE IF fn = "density" THEN "prep" ELSE "nuc0"

\* cc = cube_c(mol, nx=nx, ny=ny, nz=nz)
CubeInit(c) ==
  LET s == calls[c]
      r == s.req
      next == AfterCube(cube_ok(r.nx, r.ny, r.nz), r.fn)
  IN  /\ s.pc = "cube"
      /\ Set(c, IF next = "error" THEN [s EXCEPT !.pc = "error"]
                ELSE [s EXCEPT !.pc = next, !.cc = cube_c(mol, r.nx, r.ny, r.nz)])
      /\ UNCHANGED <<mol, files, mol0>>

(* ------------------------------ density -------------------------------- *)
BlkSize(ngrids) == Min(BLKSIZE, ngrids)

\* faulty variant: one cell too many
RhoAllocOneMore(ngrids) == Empty(ngrids + 1)

\* rho = numpy.empty(ngrids)
RhoAlloc(ngrids) == Empty(ngrids)

\* faulty variant: the axes in the order z, y, x
DensityShapeZYX(cc) == <<cc.nz, cc.ny, cc.nx>>

\* the shape density() reshapes to: (cc.nx, cc.ny, cc.nz)
DensityShape(cc) == <<cc.nx, cc.ny, cc.nz>>

\* coords = cc.get_coords(); ngrids = cc.get_ngrids(); blksize = b;
\* rho = numpy.empty(ngrids); ao = None.  A non-positive ngrids ends the call
\* (numpy.empty of a negative size, range() with step 0)
DensitySetup(c, b) ==
  LET s == calls[c]
      n == get_ngrids(s.cc)
  IN  /\ s.pc = "prep"
      /\ Set(c, [s EXCEPT !.pc = IF n <= 0 THEN "error" ELSE "chunk",
                          !.coords = get_coords(s.cc), !.ngrids = n,
                          !.blksize = b, !.rho = RhoAlloc(n), !.ip0 = 0])
      /\ UNCHANGED <<mol, files, mol0>>

\* the setup with the block size of the code
DensityPrep(c) == DensitySetup(c, BlkSize(get_ngrids(calls[c].cc)))

\* the setup with any block size 1..ngrids (the loop is the same)
DensityPrepAny(c) ==
  \E b \in 1..Max(1, get_ngrids(calls[c].cc)) : DensitySetup(c, b)

\* faulty variant: every pass evaluates the first points
ChunkCoordsFirst(coords, ip0, ip1) == SliceFirst(coords, ip0, ip1)

\* the points whose values one pass of the loop computes
ChunkCoords(coords, ip0, ip1) == Slice(coords, ip0, ip1)

\* one pass of: for ip0, ip1 in prange(0, ngrids, blksize):
\*                ao = eval_ao(mol, coords[ip0:ip1], out=ao)
\*                rho[ip0:ip1] = eval_rho(mol, ao, dm)
\* (ao is a buffer the next pass overwrites whole; it is not kept)
DensityChunk(c) ==
  LET s == calls[c]
      ip0 == s.ip0
      ip1 == prange_ip1(ip0, s.ngrids, s.blksize)
      ao == eval_ao(mol, ChunkCoords(s.coords, ip0, ip1))
      vals == eval_rho(mol, ao, s.req.dm)
      idx == SliceIdx(ip0, ip1)
  IN  /\ s.pc = "chunk"
      /\ Set(c, [s EXCEPT !.rho = AssignSlice(s.rho, ip0, ip1, vals),
                          !.ip0 = ip0 + s.blksize,
                          !.pc = IF ip0 + s.blksize < s.ngrids THEN "chunk" ELSE "reshape",
                          !.writes = Append(@, idx), !.nevals = @ + 1])
      /\ UNCHANGED <<mol, files, mol0>>

\* rho = rho.reshape(cc.nx, cc.ny, cc.nz)
DensityReshape(c) ==
  LET s == calls[c]
      sh == DensityShape(s.cc)
      f == Reshape(s.rho, sh[1], sh[2], sh[3])
  IN  /\ s.pc = "reshape" /\ s.req.fn = "density"
      /\ Set(c, [s EXCEPT !.field = f, !.pc = IF f.ok THEN "write" ELSE "error"])
      /\ UNCHANGED <<mol, files, mol0>>

\* cc.write(rho, outfile, comment=...)
DensityWrite(c) ==
  LET s == calls[c] IN
  /\ s.pc = "write" /\ s.req.fn = "density"
  /\ files' = [files EXCEPT ![c] =
                 cube_write(s.cc, mol, s.field, "Electron density in real space (e/Bohr^3)")]
  /\ Set(c, [s EXCEPT !.pc = "done"])
  /\ UNCHANGED <<mol, mol0>>

(* -------------------------------- mep ---------------------------------- *)
\* coords = cc.get_coords(); Vnuc = 0 (the scalar, which += broadcasts to one
\* zero per point)
MepPrep(c) ==
  LET s == calls[c] IN
  /\ s.pc = "nuc0"
  /\ Set(c, [s EXCEPT !.pc = "nuc", !.coords = get_coords(s.cc),
                      !.Vnuc = [k \in 1..get_ngrids(s.cc) |-> Fin(0)], !.ia = 0])
  /\ UNCHANGED <<mol, files, mol0>>

\* Z / numpy.einsum('xi,xi->x', rp, rp)**.5 with rp = r - coords
NucTerm(r, Z, coords) ==
  [k \in 1..Len(coords) |-> Div(Z, Sqrt(Dot(VSub(r, coords[k]), VSub(r, coords[k]))))]

\* one pass of: for i in range(mol.natm): ... Vnuc += Z / ...
MepNucAtom(c) ==
  LET s == calls[c]
      i == s.ia + 1
      t == NucTerm(atom_coord(mol, i), atom_charge(mol, i), s.coords)
  IN  /\ s.pc = "nuc"
      /\ Set(c, [s EXCEPT !.Vnuc = [k \in 1..Len(s.coords) |-> FAdd(s.Vnuc[k], t[k])],
                          !.ia = i,
                          !.pc = IF i < natm(mol) THEN "nuc"
                                 ELSE IF Len(s.coords) = 0 THEN "sub" ELSE "setorig"])
      /\ UNCHANGED <<mol, files, mol0>>

\* faulty variant: the loop lags one point behind
LoopPointPrev(coords, k) == coords[Max(k, 1)]

\* the point the loop `for p in coords` hands out when k values are appended
LoopPoint(coords, k) == coords[k + 1]

\* faulty variant: the origin is not set
SetOrigStepSkipped(m, p) == m

\* the molecule after the loop's mol.set_rinv_orig_(p)
SetOrigStep(m, p) == set_rinv_orig_(m, p)

\* mol.set_rinv_orig_(p)
MepSetOrig(c) ==
  LET s == calls[c]
      p == LoopPoint(s.coords, Len(s.Vele))
  IN  /\ s.pc = "setorig"
      /\ mol' = SetOrigStep(mol, p)
      /\ calls' = [d \in Slots |->
                     IF d = c
                     THEN [s EXCEPT !.pc = "intor", !.log = Append(@, <<"set", p>>)]
                     ELSE IF calls[d].pc = "intor"
                          THEN [calls[d] EXCEPT !.disturbed = TRUE]
                          ELSE calls[d]]
      /\ UNCHANGED <<files, mol0>>

\* Vele.append(numpy.einsum('ij,ij', mol.intor('cint1e_rinv_sph'), dm))
MepIntor(c) ==
  LET s == calls[c]
      v == rinv_contract(mol, s.req.dm)
  IN  /\ s.pc = "intor"
      /\ Set(c, [s EXCEPT !.Vele = Append(@, v),
                          !.log = Append(@, <<"eval", mol.rinv_orig>>),
                          !.nevals = @ + 1,
                          !.pc = IF Len(s.Vele) + 1 < Len(s.coords) THEN "setorig" ELSE "sub"])
      /\ UNCHANGED <<mol, files, mol0>>

\* faulty variant: Vele paired with Vnuc in reverse order
SubArraysRev(a, b) == [k \in 1..Len(a) |-> FSub(a[k], b[Len(b) + 1 - k])]

\* Vnuc - Vele, element by element (the list is converted to an array)
SubArrays(a, b) == [k \in 1..Len(a) |-> FSub(a[k], b[k])]

\* MEP = Vnuc - Vele; MEP = numpy.asarray(MEP)
MepSub(c) ==
  LET s == calls[c] IN
  /\ s.pc = "sub"
  /\ Set(c, [s EXCEPT !.MEP = SubArrays(s.Vnuc, s.Vele), !.pc = "reshape"])
  /\ UNCHANGED <<mol, files, mol0>>

\* the shape mep() reshapes to: its arguments (nx, ny, nz)
MepShape(req) == <<req.nx, req.ny, req.nz>>

\* MEP = MEP.reshape(nx, ny, nz)
MepReshape(c) ==
  LET s == calls[c]
      sh == MepShape(s.req)
      f == Reshape(s.MEP, sh[1], sh[2], sh[3])
  IN  /\ s.pc = "reshape" /\ s.req.fn = "mep"
      /\ Set(c, [s EXCEPT !.field = f, !.pc = IF f.ok THEN "write" ELSE "error"])
      /\ UNCHANGED <<mol, files, mol0>>

\* cc.write(MEP, outfile, '...')
MepWrite(c) ==
  LET s == calls[c] IN
  /\ s.pc = "write" /\ s.req.fn = "mep"
  /\ files' = [files EXCEPT ![c] =
                 cube_write(s.cc, mol, s.field,
                            "Molecular electrostatic potential in real space")]
  /\ Set(c, [s EXCEPT !.pc = "done"])
  /\ UNCHANGED <<mol, mol0>>

(* --------------------------- specifications ---------------------------- *)
Step(c) ==
  \/ CubeInit(c)
  \/ DensityPrep(c)
  \/ DensityChunk(c)
  \/ DensityReshape(c)
  \/ DensityWrite(c)
  \/ MepPrep(c)
  \/ MepNucAtom(c)
  \/ MepSetOrig(c)
  \/ MepIntor(c)
  \/ MepSub(c)
  \/ MepReshape(c)
  \/ MepWrite(c)

\* one call, run from entry to return
Next == Call(1, Requests) \/ Step(1)

Spec == Init /\ [][Next]_vars

\* the calls tried two at a time: grids of 1..MaxN points along x
ConcRequests ==
  { Request(fn, dm, nx, 1, 1) : fn \in {"density", "mep"}, dm \in 1..MaxDm, nx \in 1..MaxN }

\* two calls on the same molecule, their steps interleaved in any order
NextConc == \E c \in Slots : Call(c, ConcRequests) \/ Step(c)

SpecConc == Init /\ [][NextConc]_vars

\* density() on the small valid grids, with any block size
ChunkRequests ==
  { Request("density", dm, nx, ny, nz) :
      dm \in 1..MaxDm, nx \in 1..MaxN, ny \in 1..MaxN, nz \in 1..MaxN }

NextChunk ==
  \/ Call(1, ChunkRequests)
  \/ CubeInit(1)
  \/ DensityPrepAny(1)
  \/ DensityChunk(1)
  \/ DensityReshape(1)
  \/ DensityWrite(1)

SpecChunk == Init /\ [][NextChunk]_vars
(* ------------------------------ properties ---------------------------- *)
Started(s) == s.pc # "idle"

AfterLoop(s) == s.pc \in {"reshape", "write", "done"}

\* the grid of a request and its points, from the request alone
GridOf(r) == cube_c(mol0, r.nx, r.ny, r.nz)

PointsOf(r) == get_coords(GridOf(r))

\* the flat array of a call: rho or MEP
FlatOf(s) == IF s.req.fn = "density" THEN s.rho ELSE s.MEP

RECURSIVE NucUpTo(_, _)
\* sum over the atoms 1..n of Z_i / |r_i - p|
NucUpTo(p, n) ==
  IF n = 0 THEN Fin(0)
  ELSE FAdd(NucUpTo(p, n - 1), Div(mol0.atoms[n].Z, Dist(mol0.atoms[n].r, p)))

NucAt(p) == NucUpTo(p, Len(mol0.atoms))

\* the electronic term of the point p: the integral with the origin at p
EleAt(p, dm) == rinv_contract([mol0 EXCEPT !.rinv_orig = p], dm)

MepAt(p, dm) == FSub(NucAt(p), EleAt(p, dm))

\* the density at all points, evaluated as one batch
RhoBatch(points, dm) == eval_rho(mol0, eval_ao(mol0, points), dm)

RhoAt(p, dm) == RhoBatch(<<p>>, dm)[1]

SoloMep(r) == [k \in 1..Len(PointsOf(r)) |-> MepAt(PointsOf(r)[k], r.dm)]

\* C1: in density() the slices rho[ip0:ip1] assigned by the loop with block size
\* min(8000, ngrids) lie in [0, ngrids), never overlap, cover a prefix while the
\* loop runs and exactly [0, ngrids) when the reshape is reached, so that every
\* cell of rho has been written exactly once.
C1_ChunksPartition ==
  LET s == calls[1] IN
  (s.req.fn = "density" /\ s.pc \in {"chunk", "reshape", "write", "done"}) =>
    /\ s.ngrids >= 1
    /\ s.blksize = Min(BLKSIZE, s.ngrids)
    /\ \A i \in 1..Len(s.writes) : s.writes[i] \subseteq 1..s.ngrids
    /\ \A i \in 1..Len(s.writes) : \A j \in 1..Len(s.writes) :
         i < j => s.writes[i] \cap s.writes[j] = {}
    /\ UNION { s.writes[i] : i \in 1..Len(s.writes) } = 1..Min(s.ip0, s.ngrids)
    /\ AfterLoop(s) =>
         /\ Len(s.rho) = s.ngrids
         /\ UNION { s.writes[i] : i \in 1..Len(s.writes) } = 1..s.ngrids
         /\ \A k \in 1..s.ngrids : s.rho[k] # Uninit

\* density() on more than 8000 points is at the reshape after a full and a partial chunk
C1_Witness ==
  LET s == calls[1] IN
  /\ s.req.fn = "density" /\ s.pc = "reshape"
  /\ s.blksize = BLKSIZE /\ s.ngrids > BLKSIZE
  /\ Len(s.writes) = 2 /\ Cardinality(s.writes[2]) < BLKSIZE

\* C2: with any block size 1..ngrids, the array rho the chunk loop leaves is equal,
\* cell by cell, to the values of all ngrids points evaluated as one batch.
C2_ChunkingEquivalent ==
  LET s == calls[1] IN
  (s.req.fn = "density" /\ AfterLoop(s)) => s.rho = RhoBatch(PointsOf(s.req), s.req.dm)

\* a density() call that took three or more chunks, the last one partial, has returned
C2_Witness ==
  LET s == calls[1] IN
  /\ s.req.fn = "density" /\ s.pc = "done"
  /\ Len(s.writes) >= 3 /\ s.ngrids % s.blksize # 0
  /\ \E k \in 1..s.ngrids : s.rho[k] # s.rho[1]

\* C3: in mep() the k-th value of MEP is (sum over the atoms of Z_i / |r_i - p_k|)
\* minus the electronic term of the same point p_k, the k-th grid coordinate.
C3_MepValue ==
  LET s == calls[1] IN
  (s.req.fn = "mep" /\ AfterLoop(s)) =>
    LET pts == PointsOf(s.req) IN
    /\ Len(s.MEP) = Len(pts)
    /\ \A k \in 1..Len(pts) : s.MEP[k] = FSub(NucAt(pts[k]), EleAt(pts[k], s.req.dm))

\* mep() on several points of a molecule of several atoms has its MEP array, and
\* the points differ in both terms
C3_Witness ==
  LET s == calls[1] IN
  /\ s.req.fn = "mep" /\ s.pc = "reshape"
  /\ Len(mol0.atoms) >= 2 /\ Len(s.MEP) >= 4
  /\ \E k \in 1..Len(s.MEP) : s.Vele[k] # s.Vele[1] /\ s.Vnuc[k] # s.Vnuc[1]

C5_LengthAtReshape ==
  LET s == calls[1]
      n == s.req.nx * s.req.ny * s.req.nz
  IN  /\ s.pc = "reshape" => (Len(FlatOf(s)) = n /\ get_ngrids(s.cc) = n)
      /\ (s.pc \in {"write", "done"} \/ files[1] # NoFile) =>
           /\ Len(FlatOf(s)) = n
           /\ s.field.ok
           /\ s.field.shape = <<s.req.nx, s.req.ny, s.req.nz>>
      /\ (s.pc = "error" /\ s.nevals > 0) => files[1] = NoFile

\* mep() is at its reshape with an array of several values
C5_Witness ==
  LET s == calls[1] IN
  s.pc = "reshape" /\ s.req.fn = "mep" /\ Len(s.MEP) = s.req.nx * s.req.ny * s.req.nz
    /\ Len(s.MEP) >= 2

\* the value of the field of a call at the point p
ValueAt(s, p) == IF s.req.fn = "density" THEN RhoAt(p, s.req.dm) ELSE MepAt(p, s.req.dm)

\* C6: the value handed to the writer at (ix, iy, iz) is the cell of the flat array
\* at ix*ny*nz + iy*nz + iz, which is the value computed for the grid coordinate
\* of that index, the point with axis indices (ix, iy, iz): x outermost, z innermost.
C6_WriterOrder ==
  LET s == calls[1]
      r == s.req
  IN  s.pc \in {"write", "done"} =>
        LET pts == s.coords
            flat == FlatOf(s)
        IN  /\ s.field.shape = <<r.nx, r.ny, r.nz>>
            /\ \A ix \in 0..(r.nx - 1) : \A iy \in 0..(r.ny - 1) : \A iz \in 0..(r.nz - 1) :
                 LET k == ix * r.ny * r.nz + iy * r.nz + iz + 1 IN
                 /\ s.field.at[<<ix, iy, iz>>] = flat[k]
                 /\ pts[k] = grid_point(GridOf(r), ix, iy, iz)
                 /\ s.field.at[<<ix, iy, iz>>] = ValueAt(s, grid_point(GridOf(r), ix, iy, iz))

\* density() hands over a field with nx # nz whose values differ
C6_Witness ==
  LET s == calls[1] IN
  /\ s.pc = "write" /\ s.req.fn = "density"
  /\ s.req.nx # s.req.nz /\ s.req.ny >= 2
  /\ \E i \in DOMAIN s.field.at : s.field.at[i] # s.field.at[<<0, 0, 0>>]

\* the atoms at the point p
AtomsAt(p) == { i \in 1..Len(mol0.atoms) : mol0.atoms[i].r = p }

\* C7: mep() on valid dimensions never ends in an error; the value of a grid point
\* that lies on an atom is the infinity (nan for a ghost atom) of the division,
\* stored as it is; every other value is finite and the usual one; the file is
\* written with these values.
C7_SingularPropagates ==
  LET s == calls[1]
      r == s.req
  IN  (r.fn = "mep" /\ r.nx >= 1 /\ r.ny >= 1 /\ r.nz >= 1) =>
        /\ s.pc # "error"
        /\ AfterLoop(s) =>
             \A k \in 1..Len(s.coords) :
               LET hit == AtomsAt(s.coords[k]) IN
               IF hit = {} THEN s.MEP[k].kind = "fin"
               ELSE IF \E i \in hit : mol0.atoms[i].Z = 0 THEN s.MEP[k] = NaN
               ELSE s.MEP[k] = Inf(1)
        /\ s.pc = "done" => files[1].body = s.MEP

\* mep() has written a file that holds an infinite value, for a point on an atom,
\* beside finite ones
C7_Witness ==
  LET s == calls[1] IN
  /\ s.req.fn = "mep" /\ s.pc = "done"
  /\ \E k \in 1..Len(s.coords) :
       AtomsAt(s.coords[k]) # {} /\ files[1].body[k] = Inf(1)
  /\ \E k \in 1..Len(s.coords) :
       AtomsAt(s.coords[k]) = {} /\ files[1].body[k].kind = "fin"

\* C8 as stated: the values of a call are those of the call run alone, however the
\* steps of another call on the same molecule are interleaved with its own.
C8_InterleavingIndependent ==
  \A c \in Slots :
    LET s == calls[c] IN
    AfterLoop(s) =>
      /\ s.req.fn = "density" => s.rho = RhoBatch(PointsOf(s.req), s.req.dm)
      /\ s.req.fn = "mep" => s.MEP = SoloMep(s.req)

\* C8 as amended: the values of density() are those of the call run alone under
\* every interleaving; those of mep() are, as long as no other call has set the
\* origin between one of its set-origin steps and the integral that follows.
C8_IndependentUnlessOriginMoved ==
  \A c \in Slots :
    LET s == calls[c] IN
    /\ (s.req.fn = "density" /\ AfterLoop(s)) =>
         s.rho = RhoBatch(PointsOf(s.req), s.req.dm)
    /\ (s.req.fn = "mep" /\ ~s.disturbed) =>
         /\ \A k \in 1..Len(s.Vele) : s.Vele[k] = EleAt(PointsOf(s.req)[k], s.req.dm)
         /\ AfterLoop(s) => s.MEP = SoloMep(s.req)

\* two mep() calls are both in the middle of their loops, neither disturbed: the
\* first between two passes, the second about to evaluate at its second point
C8_Witness ==
  /\ \A c \in Slots :
       /\ calls[c].req.fn = "mep" /\ Len(calls[c].Vele) = 1 /\ ~calls[c].disturbed
  /\ calls[1].pc = "setorig" /\ calls[2].pc = "intor"
  /\ mol.rinv_orig = calls[2].coords[2]

\* the steps of a whole mep() loop: set the origin to p_k, evaluate at p_k, k = 1..n
ExpectedLog(pts) ==
  [j \in 1..(2 * Len(pts)) |->
     IF j % 2 = 1 THEN <<"set", pts[(j + 1) \div 2]>> ELSE <<"eval", pts[j \div 2]>>]

\* C9: a mep() call evaluates the integral once per point, in coordinate order,
\* each evaluation right after the origin was set to that point and with the
\* origin still there; all ngrid evaluations are made before the file is written.
C9_OneIntegralPerPoint ==
  LET s == calls[1] IN
  (s.req.fn = "mep" /\ s.pc \notin {"idle", "cube", "error"}) =>
    LET exp == ExpectedLog(PointsOf(s.req)) IN
    /\ Len(s.log) <= Len(exp)
    /\ \A j \in 1..Len(s.log) : s.log[j] = exp[j]
    /\ s.nevals = Len(s.Vele) /\ s.nevals = Len(s.log) \div 2
    /\ s.pc = "intor" =>
         /\ Len(s.log) % 2 = 1
         /\ mol.rinv_orig = PointsOf(s.req)[Len(s.Vele) + 1]
    /\ (s.pc \in {"sub", "reshape", "write", "done"} \/ files[1] # NoFile) =>
         s.nevals = s.req.nx * s.req.ny * s.req.nz

\* mep() has written its file after four or more evaluations
C9_Witness ==
  LET s == calls[1] IN
  /\ s.req.fn = "mep" /\ s.pc = "done" /\ files[1] # NoFile
  /\ s.nevals >= 4 /\ Len(s.log) = 2 * s.nevals

\* C10: once the loop of mep() is over, and on return, the origin is the last grid
\* coordinate whatever it was before, and nothing else of the molecule has
\* changed; density() leaves the whole molecule as it was.
C10_OriginLeftAtLastPoint ==
  LET s == calls[1] IN
  /\ mol.atoms = mol0.atoms
  /\ s.req.fn # "mep" => mol = mol0
  /\ (s.req.fn = "mep" /\ s.pc \in {"sub", "reshape", "write", "done"}) =>
       LET pts == PointsOf(s.req) IN
       mol = [mol0 EXCEPT !.rinv_orig = pts[Len(pts)]]

\* mep() has returned and the origin is not where it was before the call
C10_Witness ==
  LET s == calls[1] IN
  /\ s.req.fn = "mep" /\ s.pc = "done"
  /\ mol.rinv_orig # mol0.rinv_orig
  /\ mol.rinv_orig = s.coords[Len(s.coords)]
====
